---- MODULE Spec2Model ----
(***************************************************************************)
(* Lock-free queue of samples/main.rs (LockFreeQueue<T>): a Michael-Scott  *)
(* style linked queue whose pop frees the old head cell at once.           *)
(*                                                                         *)
(* Every atomic access of push and pop (a load, a compare_exchange, a      *)
(* fetch_add / fetch_sub, the read of a cell's value, the free of a cell)  *)
(* is one step of the calling thread, so that every interleaving of the    *)
(* accesses of concurrent calls is a behaviour of the model.               *)
(*                                                                         *)
(* The heap is a finite set of addresses.  The allocator may hand out any  *)
(* address that is not allocated, a freed one included (address reuse).    *)
(* A read of a cell that is not allocated is undefined behaviour: it       *)
(* yields any pointer, or any value, of the model's universe.              *)
(***************************************************************************)
EXTENDS Integers, Sequences, FiniteSets

\* ----------------------------------------------------------------- bounds
\* Heap addresses available to the allocator.
NumCells == 3
\* Threads of the general client, which calls push and pop in any order.
NumThreads == 2
\* Calls the general client issues in all.
MaxPush == 2
MaxPop == 3
\* The demonstration harness, scaled down from 4 x 1000 and 2 x 2000.
NumProducers == 1
ItemsPerProducer == 2
ConsumerTarget == 1
\* Consecutive spin() calls followed on one Backoff (beyond 10 the delay is
\* at its cap).
MaxSpins == 12

\* ------------------------------------------------------ program constants
\* main spawns two consumer threads.
NumConsumers == 2
\* Backoff::new: current = 1, max = 1024.
BackoffInitial == 1
BackoffMax == 1024
\* AtomicUsize wraps modulo 2^64; the model keeps the wrap on a narrower word.
UsizeMod == 2^16
\* Backoff::current is a u32, which wraps modulo 2^32; the model keeps the
\* wrap on a narrower word, still above twice the cap.
U32Mod == 2^16

\* --------------------------------------------------------------- universe
Null == 0
Addr == 1..NumCells
Ptr == Addr \cup {Null}
\* Option<T>: None, or Some(v) written v.
None == -1
Values == 0..(NumProducers * ItemsPerProducer - 1)
OptValue == Values \cup {None}

Min(a, b) == IF a <= b THEN a ELSE b

VARIABLES
    \* Node<T> cells by address: the value and next fields, and whether the
    \* address is currently allocated (Box::into_raw .. Box::from_raw).
    node_value, node_next, allocated,
    \* The highest address the allocator has handed out so far.
    heap_top,
    \* LockFreeQueue: head, tail, len.
    head, tail, len,
    \* Per thread: position in push / pop, and the locals of the call.
    pc, l_head, l_tail, l_next, new_node, l_value, backoff,
    \* History (not read by the program):
    \*   calls[t]    the calls of thread t, in order, with argument / result
    \*               and, for each thread u, how many calls of u had returned
    \*               when the call was invoked (real-time precedence);
    \*   stale[t]    the locals of t whose cell was freed after t loaded them;
    \*   absq        the values linked by a push and not yet removed by a
    \*               successful CAS of head, in link order;
    \*   sawEmpty[t] whether the queue was empty at some instant of the
    \*               latest pop call of t.
    \*   removed     how many CAS of head have succeeded.
    \*   moved       the cells whose value ptr::read has copied out to a
    \*               caller, whether the cell was allocated at the read or
    \*               the value came from its freed memory, until their
    \*               address is allocated again;
    \*   redropped   whether the free of a cell has run the destructor of a
    \*               value that had been copied out to a caller;
    \*   spins[t]    the spin() calls on the Backoff of t since Backoff::new
    \*               or reset().
    calls, stale, absq, sawEmpty, removed, moved, redropped, spins,
    \* Drop: "live" until drop(&mut self) is called, "drain" while it pops,
    \* "free" once a pop returned None, "dropped" when it has returned.
    phase,
    \* main: per producer the loop index j, per consumer its local count.
    count

heap == <<node_value, node_next, allocated, heap_top>>
queue == <<head, tail, len>>
locals == <<l_head, l_tail, l_next, new_node, l_value, backoff>>
vars == <<node_value, node_next, allocated, heap_top, head, tail, len,
          pc, l_head, l_tail, l_next, new_node, l_value, backoff,
          calls, stale, absq, sawEmpty, removed, moved, redropped, spins,
          phase, count>>

Procs == DOMAIN pc

\* ------------------------------------------------------------------ Node
\* Node::new: a cell at a free address, holding value, next = null.  The
\* allocator picks any address freed earlier, or a new one; the addresses
\* never handed out are interchangeable, so the new one is the next of them.
Node_new(a, value) ==
    /\ ~allocated[a]
    /\ a <= heap_top + 1
    /\ heap_top' = IF a > heap_top THEN a ELSE heap_top
    /\ node_value' = [node_value EXCEPT ![a] = value]
    /\ node_next' = [node_next EXCEPT ![a] = Null]
    /\ allocated' = [allocated EXCEPT ![a] = TRUE]

\* drop(Box::from_raw(a)): the cell is returned to the allocator; every
\* local pointer to it, of any thread, is stale from now on.
StaleAfterFree(a) ==
    [u \in Procs |->
        stale[u] \cup (IF l_head[u] = a THEN {"head"} ELSE {})
                 \cup (IF l_tail[u] = a THEN {"tail"} ELSE {})
                 \cup (IF l_next[u] = a THEN {"next"} ELSE {})]

\* Whether the destructor that drop(Box::from_raw(a)) runs on the value
\* field destroys a value already copied out to a caller, as the set of
\* possible outcomes: an allocated cell holds what ptr::read left in it; the
\* memory of a cell that is already free is either intact (it still holds
\* the value, if one was copied out of it) or has been overwritten.
DestroysMoved(a) ==
    IF allocated[a]
    THEN {(a \in moved /\ node_value[a] # None)}
    ELSE {FALSE, (a \in moved)}

Node_free(a) ==
    /\ \E d \in DestroysMoved(a) : redropped' = (redropped \/ d)
    /\ allocated' = [allocated EXCEPT ![a] = FALSE]
    /\ node_value' = [node_value EXCEPT ![a] = None]
    /\ node_next' = [node_next EXCEPT ![a] = Null]
    /\ heap_top' = heap_top
    /\ stale' = StaleAfterFree(a)

\* The pointers a load of a.next may yield: the field of an allocated cell,
\* anything when the cell has been freed.
LoadNext(a) ==
    IF allocated[a] THEN {node_next[a]} ELSE Ptr

\* The values ptr::read(&(*a).value) may yield.
LoadValue(a) ==
    IF allocated[a] THEN {node_value[a]} ELSE OptValue

\* --------------------------------------------------------------- Backoff
Backoff_new == BackoffInitial

\* Doubling without the cap.
Backoff_spin_Uncapped(current) == (current * 2) % U32Mod

\* Backoff::spin: the busy wait changes nothing; current doubles (on a u32)
\* up to max.
Backoff_spin(current) == Min((current * 2) % U32Mod, BackoffMax)

\* Backoff::reset
Backoff_reset == BackoffInitial

\* ----------------------------------------------------------------- queue
\* LockFreeQueue::len and is_empty.
Queue_len == len
is_empty == Queue_len = 0

\* The wrapping arithmetic of fetch_add / fetch_sub on AtomicUsize.
WrapUsize(n) == n % UsizeMod

\* line 106: len.fetch_add(1)
LenAfterPush(n) == WrapUsize(n + 1)

\* line 150: len.fetch_sub(1)
LenAfterPop(n) == WrapUsize(n - 1)

\* compare_exchange(expected, new) on a pointer word holding cur.
CasOk(cur, expected) == cur = expected
CasResult(cur, expected, new) == IF CasOk(cur, expected) THEN new ELSE cur

\* ------------------------------------------------------------- history
Returned == [u \in Procs |-> Len(SelectSeq(calls[u], LAMBDA c : c.done))]

Invoke(t, op, val) ==
    calls' = [calls EXCEPT ![t] =
                 Append(@, [op |-> op, val |-> val, done |-> FALSE, before |-> Returned])]

\* The harness records no calls (its consumers poll without end): a thread
\* with no recorded call returns without a record.
Return(t, val) ==
    calls' = [calls EXCEPT ![t] =
                 IF @ = <<>> THEN @
                 ELSE [@ EXCEPT ![Len(@)] = [@ EXCEPT !.val = val, !.done = TRUE]]]

\* The return of a call that returns (): its record keeps the argument.
ReturnUnit(t) ==
    calls' = [calls EXCEPT ![t] =
                 IF @ = <<>> THEN @
                 ELSE [@ EXCEPT ![Len(@)] = [@ EXCEPT !.done = TRUE]]]

NumCalls(op) ==
    LET n[S \in SUBSET Procs] ==
            IF S = {} THEN 0
            ELSE LET u == CHOOSE x \in S : TRUE
                 IN Len(SelectSeq(calls[u], LAMBDA c : c.op = op)) + n[S \ {u}]
    IN n[Procs]

FreeAddr == {a \in Addr : ~allocated[a]}

IdleLocals(t) ==
    /\ l_head' = [l_head EXCEPT ![t] = Null]
    /\ l_tail' = [l_tail EXCEPT ![t] = Null]
    /\ l_next' = [l_next EXCEPT ![t] = Null]
    /\ new_node' = [new_node EXCEPT ![t] = Null]
    /\ l_value' = [l_value EXCEPT ![t] = None]
    /\ backoff' = [backoff EXCEPT ![t] = BackoffInitial]

\* The queue holds no element: head has no successor, or every value linked
\* so far has been removed.
EmptyNow == (allocated[head] /\ node_next[head] = Null) \/ absq = <<>>
EmptyNext == (allocated'[head'] /\ node_next'[head'] = Null) \/ absq' = <<>>

InPop(p) == p \in {"pop_load_head", "pop_load_tail", "pop_load_next", "pop_cas",
                   "pop_read", "pop_free", "pop_dec"}

\* The value taken from the cell that was the head.
PopValueCell_OldHead(t) == l_head[t]

\* The cell whose value pop returns: the new head.
PopValueCell(t) == l_next[t]

\* sawEmpty follows every step: set at the invocation of a pop, accumulated
\* over every step taken by any thread while the call is in flight.
\* The caller's loop variable follows the return of its call: a producer
\* moves to its next j (line 187); a consumer counts a pop that returned Some
\* (lines 199-200).  The general client does not read it.
Track(t) ==
    /\ removed' = IF pc[t] = "pop_cas" /\ pc'[t] = "pop_read"
                  THEN WrapUsize(removed + 1) ELSE removed
    /\ count' = [count EXCEPT ![t] =
                    IF pc[t] = "push_inc" THEN @ + 1
                    ELSE IF pc[t] = "pop_dec" /\ l_value[t] # None THEN @ + 1
                    ELSE @]
    /\ sawEmpty' = [u \in Procs |->
          IF pc[u] = "idle"
          THEN IF InPop(pc'[u]) THEN EmptyNow \/ EmptyNext
               ELSE IF pc'[u] = "idle" THEN sawEmpty[u] ELSE FALSE
          ELSE IF InPop(pc[u]) THEN sawEmpty[u] \/ EmptyNext ELSE FALSE]
    /\ moved' = IF /\ pc[t] = "pop_read"
                   /\ \/ allocated[PopValueCell(t)]
                      \/ l_value'[t] # None
                THEN moved \cup {PopValueCell(t)}
                ELSE IF pc[t] = "idle" /\ pc'[t] = "push_load_tail"
                THEN moved \ {new_node'[t]}
                ELSE moved
    /\ IF pc[t] = "pop_free" THEN TRUE ELSE redropped' = redropped
    /\ spins' = [spins EXCEPT ![t] =
                    IF pc[t] = "idle" \/ pc'[t] = "idle" THEN 0
                    ELSE IF pc'[t] \in {"push_load_tail", "pop_load_head"}
                    THEN Min(@ + 1, MaxSpins)
                    ELSE @]
    /\ phase' = IF /\ phase = "drain"
                   /\ pc'[t] = "idle"
                   /\ \/ pc[t] = "pop_cas"
                      \/ pc[t] = "pop_dec" /\ l_value[t] = None
                THEN "free" ELSE phase

\* ------------------------------------------------------------------ push
\* push, lines 81-82: allocate the cell, start a fresh Backoff.  l_value
\* keeps the argument of the call.
push_enter(t, value) ==
    /\ pc[t] = "idle"
    /\ \E a \in FreeAddr : /\ Node_new(a, value)
                           /\ new_node' = [new_node EXCEPT ![t] = a]
    /\ backoff' = [backoff EXCEPT ![t] = Backoff_new]
    /\ l_value' = [l_value EXCEPT ![t] = value]
    /\ pc' = [pc EXCEPT ![t] = "push_load_tail"]
    /\ UNCHANGED <<queue, l_head, l_tail, l_next, stale, absq>>
    /\ Track(t)

\* line 85: tail = self.tail.load()
push_load_tail(t) ==
    /\ pc[t] = "push_load_tail"
    /\ l_tail' = [l_tail EXCEPT ![t] = tail]
    /\ stale' = [stale EXCEPT ![t] = @ \ {"tail"}]
    /\ pc' = [pc EXCEPT ![t] = "push_load_next"]
    /\ UNCHANGED <<heap, queue, l_head, l_next, new_node, l_value, backoff, calls, absq>>
    /\ Track(t)

\* lines 86-87: next = (*tail).next.load()
push_load_next(t) ==
    /\ pc[t] = "push_load_next"
    /\ \E p \in LoadNext(l_tail[t]) : l_next' = [l_next EXCEPT ![t] = p]
    /\ stale' = [stale EXCEPT ![t] = @ \ {"next"}]
    /\ pc' = [pc EXCEPT ![t] = "push_cas"]
    /\ UNCHANGED <<heap, queue, l_head, l_tail, new_node, l_value, backoff, calls, absq>>
    /\ Track(t)

\* lines 89-117: next is null: CAS (*tail).next from null to new_node, and on
\* failure spin and retry; next is not null: help tail forward, spin, retry.
push_cas(t) ==
    /\ pc[t] = "push_cas"
    /\ IF l_next[t] = Null
       THEN \E ok \in (IF allocated[l_tail[t]]
                       THEN {CasOk(node_next[l_tail[t]], Null)}
                       ELSE BOOLEAN) :
              IF ok
              THEN /\ node_next' = [node_next EXCEPT ![l_tail[t]] =
                                       IF allocated[l_tail[t]] THEN new_node[t] ELSE @]
                   /\ absq' = Append(absq, l_value[t])
                   /\ pc' = [pc EXCEPT ![t] = "push_swing"]
                   /\ UNCHANGED <<tail, backoff>>
              ELSE /\ backoff' = [backoff EXCEPT ![t] = Backoff_spin(@)]
                   /\ pc' = [pc EXCEPT ![t] = "push_load_tail"]
                   /\ UNCHANGED <<node_next, tail, absq>>
       ELSE /\ tail' = CasResult(tail, l_tail[t], l_next[t])
            /\ backoff' = [backoff EXCEPT ![t] = Backoff_spin(@)]
            /\ pc' = [pc EXCEPT ![t] = "push_load_tail"]
            /\ UNCHANGED <<node_next, absq>>
    /\ UNCHANGED <<node_value, allocated, heap_top, head, len, l_head, l_tail,
                   l_next, new_node, l_value, calls, stale>>
    /\ Track(t)

\* lines 100-105: tail CAS from the tail read to new_node; failure is ignored.
push_swing(t) ==
    /\ pc[t] = "push_swing"
    /\ tail' = CasResult(tail, l_tail[t], new_node[t])
    /\ pc' = [pc EXCEPT ![t] = "push_inc"]
    /\ UNCHANGED <<heap, head, len, locals, calls, stale, absq>>
    /\ Track(t)

\* lines 106-107: len.fetch_add(1); return.
push_inc(t) ==
    /\ pc[t] = "push_inc"
    /\ len' = LenAfterPush(len)
    /\ pc' = [pc EXCEPT ![t] = "idle"]
    /\ ReturnUnit(t)
    /\ IdleLocals(t)
    /\ stale' = [stale EXCEPT ![t] = {}]
    /\ UNCHANGED <<heap, head, tail, absq>>
    /\ Track(t)

\* ------------------------------------------------------------------- pop
\* pop, line 123: start a fresh Backoff.
pop_enter(t) ==
    /\ pc[t] = "idle"
    /\ backoff' = [backoff EXCEPT ![t] = Backoff_new]
    /\ pc' = [pc EXCEPT ![t] = "pop_load_head"]
    /\ UNCHANGED <<heap, queue, l_head, l_tail, l_next, new_node, l_value, stale, absq>>
    /\ Track(t)

\* line 126: head = self.head.load()
pop_load_head(t) ==
    /\ pc[t] = "pop_load_head"
    /\ l_head' = [l_head EXCEPT ![t] = head]
    /\ stale' = [stale EXCEPT ![t] = @ \ {"head"}]
    /\ pc' = [pc EXCEPT ![t] = "pop_load_tail"]
    /\ UNCHANGED <<heap, queue, l_tail, l_next, new_node, l_value, backoff, calls, absq>>
    /\ Track(t)

\* line 127: tail = self.tail.load()
pop_load_tail(t) ==
    /\ pc[t] = "pop_load_tail"
    /\ l_tail' = [l_tail EXCEPT ![t] = tail]
    /\ stale' = [stale EXCEPT ![t] = @ \ {"tail"}]
    /\ pc' = [pc EXCEPT ![t] = "pop_load_next"]
    /\ UNCHANGED <<heap, queue, l_head, l_next, new_node, l_value, backoff, calls, absq>>
    /\ Track(t)

\* lines 128-129: next = (*head).next.load()
pop_load_next(t) ==
    /\ pc[t] = "pop_load_next"
    /\ \E p \in LoadNext(l_head[t]) : l_next' = [l_next EXCEPT ![t] = p]
    /\ stale' = [stale EXCEPT ![t] = @ \ {"next"}]
    /\ pc' = [pc EXCEPT ![t] = "pop_cas"]
    /\ UNCHANGED <<heap, queue, l_head, l_tail, new_node, l_value, backoff, calls, absq>>
    /\ Track(t)

\* The cell pop installs as the new head: the successor it read.
PopTarget(t) == l_next[t]

\* line 132: next.is_null(), under head == tail.
PopSeesEmpty(t) == l_next[t] = Null

\* lines 131-154: head == tail and next null: return None; head == tail and
\* next not null: help tail forward; head != tail and next not null: CAS head
\* to next; every path that does not return spins and retries.
pop_cas(t) ==
    /\ pc[t] = "pop_cas"
    /\ IF l_head[t] = l_tail[t]
       THEN IF PopSeesEmpty(t)
            THEN /\ pc' = [pc EXCEPT ![t] = "idle"]
                 /\ Return(t, None)
                 /\ IdleLocals(t)
                 /\ stale' = [stale EXCEPT ![t] = {}]
                 /\ UNCHANGED <<head, tail, absq>>
            ELSE /\ tail' = CasResult(tail, l_tail[t], l_next[t])
                 /\ backoff' = [backoff EXCEPT ![t] = Backoff_spin(@)]
                 /\ pc' = [pc EXCEPT ![t] = "pop_load_head"]
                 /\ UNCHANGED <<head, absq, l_head, l_tail, l_next, new_node,
                                l_value, calls, stale>>
       ELSE IF l_next[t] # Null /\ CasOk(head, l_head[t])
            THEN /\ head' = PopTarget(t)
                 /\ absq' = IF absq = <<>> THEN absq ELSE Tail(absq)
                 /\ pc' = [pc EXCEPT ![t] = "pop_read"]
                 /\ UNCHANGED <<tail, locals, calls, stale>>
            ELSE /\ backoff' = [backoff EXCEPT ![t] = Backoff_spin(@)]
                 /\ pc' = [pc EXCEPT ![t] = "pop_load_head"]
                 /\ UNCHANGED <<head, tail, absq, l_head, l_tail, l_next, new_node,
                                l_value, calls, stale>>
    /\ UNCHANGED <<heap, len>>
    /\ Track(t)

\* line 148: value = ptr::read(&(*next).value); the field keeps its bits.
pop_read(t) ==
    /\ pc[t] = "pop_read"
    /\ \E v \in LoadValue(PopValueCell(t)) : l_value' = [l_value EXCEPT ![t] = v]
    /\ pc' = [pc EXCEPT ![t] = "pop_free"]
    /\ UNCHANGED <<heap, queue, l_head, l_tail, l_next, new_node, backoff, calls,
                   stale, absq>>
    /\ Track(t)

\* line 149: drop(Box::from_raw(head))
pop_free(t) ==
    /\ pc[t] = "pop_free"
    /\ Node_free(l_head[t])
    /\ pc' = [pc EXCEPT ![t] = "pop_dec"]
    /\ UNCHANGED <<queue, locals, calls, absq>>
    /\ Track(t)

\* lines 150-151: len.fetch_sub(1); return value.
pop_dec(t) ==
    /\ pc[t] = "pop_dec"
    /\ len' = LenAfterPop(len)
    /\ pc' = [pc EXCEPT ![t] = "idle"]
    /\ Return(t, l_value[t])
    /\ IdleLocals(t)
    /\ stale' = [stale EXCEPT ![t] = {}]
    /\ UNCHANGED <<heap, head, tail, absq>>
    /\ Track(t)

\* One step inside a call of thread t.
Step(t) ==
    \/ push_load_tail(t)
    \/ push_load_next(t)
    \/ push_cas(t)
    \/ push_swing(t)
    \/ push_inc(t)
    \/ pop_load_head(t)
    \/ pop_load_tail(t)
    \/ pop_load_next(t)
    \/ pop_cas(t)
    \/ pop_read(t)
    \/ pop_free(t)
    \/ pop_dec(t)

\* LockFreeQueue::new: one sentinel cell; head and tail reference it.
Queue_new(threads) ==
    /\ node_value = [a \in Addr |-> None]
    /\ node_next = [a \in Addr |-> Null]
    /\ allocated = [a \in Addr |-> a = 1]
    /\ heap_top = 1
    /\ head = 1
    /\ tail = 1
    /\ len = 0
    /\ pc = [t \in threads |-> "idle"]
    /\ l_head = [t \in threads |-> Null]
    /\ l_tail = [t \in threads |-> Null]
    /\ l_next = [t \in threads |-> Null]
    /\ new_node = [t \in threads |-> Null]
    /\ l_value = [t \in threads |-> None]
    /\ backoff = [t \in threads |-> BackoffInitial]
    /\ calls = [t \in threads |-> <<>>]
    /\ stale = [t \in threads |-> {}]
    /\ absq = <<>>
    /\ sawEmpty = [t \in threads |-> FALSE]
    /\ removed = 0
    /\ moved = {}
    /\ redropped = FALSE
    /\ spins = [t \in threads |-> 0]
    /\ phase = "live"

\* ------------------------------------------------ general client: Spec
\* Any thread that is not inside a call may call push(v) or pop().
CallPush(t) ==
    /\ NumCalls("push") < MaxPush
    /\ \E v \in Values : push_enter(t, v) /\ Invoke(t, "push", v)

CallPop(t) ==
    /\ NumCalls("pop") < MaxPop
    /\ pop_enter(t)
    /\ Invoke(t, "pop", None)

Init ==
    /\ Queue_new(1..NumThreads)
    /\ count = [t \in 1..NumThreads |-> 0]

Next ==
    \E t \in 1..NumThreads :
        \/ CallPush(t)
        \/ CallPop(t)
        \/ Step(t)

Spec == Init /\ [][Next]_vars

\* Thread 1 may stop for ever anywhere; every other thread keeps being
\* scheduled while it is inside a call.
StallSpec ==
    /\ Init /\ [][Next]_vars
    /\ \A t \in 2..NumThreads : WF_vars(Step(t))

\* --------------------------------------- one thread alone: SeqSpec
SeqInit ==
    /\ Queue_new({1})
    /\ count = [t \in {1} |-> 0]

SeqNext ==
    \/ CallPush(1)
    \/ CallPop(1)
    \/ Step(1)

SeqSpec == SeqInit /\ [][SeqNext]_vars

\* ------------------------------------------------------------- Drop
\* The thread that holds the queue last and runs its destructor.
DropOwner == 1

\* drop(&mut self) is called: the borrow is exclusive, so no call is in
\* flight and none starts afterwards.
drop_enter(o) ==
    /\ phase = "live"
    /\ \A t \in Procs : pc[t] = "idle"
    /\ phase' = "drain"
    /\ UNCHANGED <<heap, queue, pc, locals, calls, stale, absq, sawEmpty,
                   removed, moved, redropped, spins, count>>

\* line 161: while self.pop().is_some() {}: one more call of pop.  The drain
\* is followed until more cells have been removed than the clients may pop.
drop_pop(o) ==
    /\ phase = "drain"
    /\ removed <= MaxPop
    /\ pop_enter(o)
    /\ Invoke(o, "pop", None)

\* lines 162-163: head = self.head.load(); drop(Box::from_raw(head)).
drop_free(o) ==
    /\ phase = "free"
    /\ pc[o] = "idle"
    /\ Node_free(head)
    /\ phase' = "dropped"
    /\ UNCHANGED <<queue, pc, locals, calls, absq, sawEmpty, removed, moved,
                   spins, count>>

\* ------------------------------------------------- main: MainSpec
Producers == 1..NumProducers
Consumers == (NumProducers + 1)..(NumProducers + NumConsumers)

\* lines 184-191: producer i pushes i * M + j for j in 0..M.
producer_push(t) ==
    /\ t \in Producers
    /\ count[t] < ItemsPerProducer
    /\ push_enter(t, (t - 1) * ItemsPerProducer + count[t])
    /\ UNCHANGED calls

\* lines 194-207: a consumer pops until its own count reaches the target.
consumer_pop(t) ==
    /\ t \in Consumers
    /\ count[t] < ConsumerTarget
    /\ pop_enter(t)
    /\ UNCHANGED calls

\* The thread of main: it owns the last Arc of the queue and runs the
\* queue's destructor when it leaves main (line 217).
MainThread == NumProducers + NumConsumers + 1
MainProcs == Producers \cup Consumers \cup {MainThread}

MainInit ==
    /\ Queue_new(MainProcs)
    /\ count = [t \in MainProcs |-> 0]

\* handle.join() has returned for every thread.
Joined ==
    /\ \A t \in Producers \cup Consumers : pc[t] = "idle"
    /\ \A t \in Producers : count[t] >= ItemsPerProducer
    /\ \A t \in Consumers : count[t] >= ConsumerTarget

\* line 216: main reads len() after the joins, before the queue is dropped.
AfterJoin == Joined /\ phase = "live"

\* lines 212-217: after the joins main returns and the queue is dropped.
main_drop_enter(o) == Joined /\ drop_enter(o)

MainNext ==
    \/ \E t \in MainProcs :
          \/ producer_push(t)
          \/ consumer_pop(t)
          \/ Step(t)
    \/ main_drop_enter(MainThread)
    \/ drop_pop(MainThread)
    \/ drop_free(MainThread)

MainSpec == MainInit /\ [][MainNext]_vars

\* The scheduler runs every thread of main again and again.
MainFairSpec ==
    /\ MainInit /\ [][MainNext]_vars
    /\ \A t \in MainProcs :
          WF_vars(producer_push(t) \/ consumer_pop(t) \/ Step(t))
    /\ WF_vars(\/ main_drop_enter(MainThread)
               \/ drop_pop(MainThread)
               \/ drop_free(MainThread))

\* ------------------------------------------------- DropSpec, SeqDropSpec
\* A client call is made while the queue is live.
ClientPush(t) == phase = "live" /\ CallPush(t)
ClientPop(t) == phase = "live" /\ CallPop(t)

\* Threads call push and pop in any interleaving; when no call is in flight
\* the owner may drop the queue.
DropNext ==
    \/ \E t \in 1..NumThreads :
          \/ ClientPush(t)
          \/ ClientPop(t)
          \/ Step(t)
    \/ drop_enter(DropOwner)
    \/ drop_pop(DropOwner)
    \/ drop_free(DropOwner)

DropSpec == Init /\ [][DropNext]_vars

\* One thread calls push and pop, then drops the queue.
SeqDropNext ==
    \/ ClientPush(1)
    \/ ClientPop(1)
    \/ Step(1)
    \/ drop_enter(1)
    \/ drop_pop(1)
    \/ drop_free(1)

SeqDropSpec == SeqInit /\ [][SeqDropNext]_vars

\* ------------------------------------------------ Backoff: BackoffSpec
\* Backoff objects driven on their own: any sequence of new, spin, reset.
backoff_new(t) ==
    /\ backoff' = [backoff EXCEPT ![t] = Backoff_new]
    /\ spins' = [spins EXCEPT ![t] = 0]
    /\ UNCHANGED <<heap, queue, pc, l_head, l_tail, l_next, new_node, l_value,
                   calls, stale, absq, sawEmpty, removed, moved, redropped,
                   phase, count>>

backoff_spin(t) ==
    /\ spins[t] < MaxSpins
    /\ backoff' = [backoff EXCEPT ![t] = Backoff_spin(@)]
    /\ spins' = [spins EXCEPT ![t] = @ + 1]
    /\ UNCHANGED <<heap, queue, pc, l_head, l_tail, l_next, new_node, l_value,
                   calls, stale, absq, sawEmpty, removed, moved, redropped,
                   phase, count>>

backoff_reset(t) ==
    /\ backoff' = [backoff EXCEPT ![t] = Backoff_reset]
    /\ spins' = [spins EXCEPT ![t] = 0]
    /\ UNCHANGED <<heap, queue, pc, l_head, l_tail, l_next, new_node, l_value,
                   calls, stale, absq, sawEmpty, removed, moved, redropped,
                   phase, count>>

BackoffNext ==
    \E t \in 1..NumThreads :
        \/ backoff_new(t)
        \/ backoff_spin(t)
        \/ backoff_reset(t)

BackoffSpec == Init /\ [][BackoffNext]_vars

\* ------------------------------------------------------------- claims
\* The recorded calls that satisfy P, counted over every thread.
CountCalls(P(_)) ==
    LET n[S \in SUBSET Procs] ==
            IF S = {} THEN 0
            ELSE LET u == CHOOSE x \in S : TRUE
                 IN Len(SelectSeq(calls[u], P)) + n[S \ {u}]
    IN n[Procs]

IsPushOf(v, c) == c.op = "push" /\ c.val = v
IsPopOf(v, c) == c.op = "pop" /\ c.done /\ c.val = v
PushedCount(v) == CountCalls(LAMBDA c : IsPushOf(v, c))
PoppedCount(v) == CountCalls(LAMBDA c : IsPopOf(v, c))
PushesCompleted == CountCalls(LAMBDA c : c.op = "push" /\ c.done)
PopsWithValue == CountCalls(LAMBDA c : c.op = "pop" /\ c.done /\ c.val # None)
Quiescent == \A t \in Procs : pc[t] = "idle"

\* C3: at every moment the values returned so far by pop form a sub-multiset
\* of the values passed so far to push (so no pushed value is returned twice).
C3_Conservation ==
    \A v \in Values : PoppedCount(v) <= PushedCount(v)

\* A local pointer of t refers to a reclaimed cell: the cell is free now, or
\* was freed after t loaded the pointer (and perhaps allocated again since).
Dangling(t, name, a) == name \in stale[t] \/ ~allocated[a]

\* Thread t stands at a dereference whose cell has been reclaimed.
DerefsReclaimed(t) ==
    \/ pc[t] = "push_load_next" /\ Dangling(t, "tail", l_tail[t])
    \/ pc[t] = "pop_load_next" /\ Dangling(t, "head", l_head[t])
    \/ pc[t] = "pop_read" /\ Dangling(t, "next", l_next[t])

\* C4: no thread dereferences a reclaimed cell: not the load of tail.next in
\* push, not the load of head.next in pop, not pop's read of the new head's
\* value.
C4_NoUseAfterFree ==
    \A t \in Procs : ~DerefsReclaimed(t)

LastCall(t) == calls[t][Len(calls[t])]

\* C6: a pop that returned None saw the queue empty at some instant between
\* its invocation and its return.
C6_AbsentOnlyIfEmpty ==
    \A t \in Procs :
        (calls[t] # <<>> /\ pc[t] = "idle" /\ LastCall(t).op = "pop"
            /\ LastCall(t).val = None)
        => sawEmpty[t]

\* C9: when no call is in flight, len() is the number of pushes completed
\* minus the number of pops that returned a value.
C9_QuiescentLen ==
    Quiescent => Queue_len = PushesCompleted - PopsWithValue

\* --- linearizability
\* A recorded call is named <<t, i>>: the i-th call of thread t.
AllOps == {o \in Procs \X (1..(MaxPush + MaxPop)) : o[2] <= Len(calls[o[1]])}
Call(o) == calls[o[1]][o[2]]
\* o1 returned before o2 was invoked.
Precedes(o1, o2) == o1[2] <= Call(o2).before[o1[1]]

\* The calls of R can be put, after a FIFO queue holding q, in a total order
\* that respects Precedes and in which every pop returns the oldest value
\* pushed and not yet popped, or None when there is none.  A call that has
\* not returned may take effect, with any result, or be left out.
RECURSIVE Lin(_, _)
Lin(R, q) ==
    IF \A o \in R : ~Call(o).done
    THEN TRUE
    ELSE \E o \in R :
            /\ \A o2 \in R : ~Precedes(o2, o)
            /\ LET c == Call(o)
               IN IF c.op = "push" THEN Lin(R \ {o}, Append(q, c.val))
                  ELSE IF ~c.done
                       THEN Lin(R \ {o}, IF q = <<>> THEN q ELSE Tail(q))
                  ELSE IF c.val = None THEN q = <<>> /\ Lin(R \ {o}, q)
                  ELSE q # <<>> /\ Head(q) = c.val /\ Lin(R \ {o}, Tail(q))

\* C1: the calls made so far are linearizable as calls of a FIFO queue.
C1_Linearizable ==
    Lin(AllOps, <<>>)

\* --- one thread
\* The calls of h are n pushes followed by pops only.
PushesThenPops(h, n) ==
    /\ \A i \in 1..Len(h) : (h[i].op = "push") <=> (i <= n)
    /\ \A i \in 1..n : h[i].done

\* C2: one thread pushes v1..vn onto a new queue and then pops: the k-th pop
\* returns vk for k <= n, and the (n+1)-th pop returns None.
C2_SequentialFifo ==
    \A t \in Procs : \A n \in 0..Len(calls[t]) :
        PushesThenPops(calls[t], n) =>
            \A k \in 1..(Len(calls[t]) - n) :
                calls[t][n + k].done =>
                    /\ k <= n => calls[t][n + k].val = calls[t][k].val
                    /\ k = n + 1 => calls[t][n + k].val = None

\* Two distinct values were pushed, then popped in order, and a third pop
\* returned None.
C2_Witness ==
    /\ Len(calls[1]) = 5
    /\ PushesThenPops(calls[1], 2)
    /\ calls[1][1].val # calls[1][2].val
    /\ calls[1][3].val = calls[1][1].val
    /\ calls[1][4].val = calls[1][2].val
    /\ calls[1][5].done /\ calls[1][5].val = None

Fresh == \A t \in Procs : calls[t] = <<>> /\ pc[t] = "idle"
HoldsNoElement == absq = <<>> /\ node_next[head] = Null
\* Thread t is in a pop that has not yet won a CAS of head, no other call is
\* in flight, and what the pop has loaded so far is what the queue holds now:
\* the step t takes is the step of a pop called on the queue as it stands.
PopScanning(t) ==
    /\ pc[t] \in {"pop_load_head", "pop_load_tail", "pop_load_next", "pop_cas"}
    /\ \A u \in Procs \ {t} : pc[u] = "idle"
    /\ allocated[head]
    /\ pc[t] \in {"pop_load_tail", "pop_load_next", "pop_cas"} => l_head[t] = head
    /\ pc[t] \in {"pop_load_next", "pop_cas"} => l_tail[t] = tail
    /\ pc[t] = "pop_cas" => l_next[t] = node_next[head]

\* C5: a new queue is empty (is_empty() and pop() == None), and a pop on a
\* queue that holds no element, with no other call in flight before or
\* after its step, returns None and leaves head, tail, the cells and the
\* counter as they were.
C5_EmptyQueueContract ==
    /\ [](Fresh => is_empty)
    /\ [][\A t \in Procs :
            (/\ PopScanning(t) /\ HoldsNoElement
             /\ \A u \in Procs \ {t} : pc'[u] = "idle") =>
                /\ UNCHANGED <<heap, queue>>
                /\ pc[t] = "pop_cas" =>
                      /\ pc'[t] = "idle"
                      /\ calls'[t][Len(calls'[t])].done
                      /\ calls'[t][Len(calls'[t])].val = None]_vars

\* --- main
\* C10: once every thread has joined, len() (read at line 216, before the
\* queue is dropped) is the consumers' target: 2000 of the 4000 pushed remain.
C10_HalfRemain ==
    AfterJoin => Queue_len = ConsumerTarget

\* C7: under fair scheduling every call of every thread of main returns and
\* every thread terminates.
C7_Termination ==
    /\ \A t \in Producers \cup Consumers : (pc[t] # "idle") ~> (pc[t] = "idle")
    /\ <>Joined

\* --- lock-freedom
\* C8: whatever thread 1 does, and wherever it stops, every call of the
\* other threads returns when they are scheduled fairly.
C8_LockFree ==
    \A t \in 2..NumThreads : (pc[t] # "idle") ~> (pc[t] = "idle")

\* --- teardown
\* The cell a thread is about to hand to drop(Box::from_raw(..)) is allocated.
FreesAllocated(t) == pc[t] = "pop_free" => allocated[l_head[t]]

\* C11: a teardown started when no call is in flight frees every allocated
\* cell once: no step of it frees a cell that is already free, and when it
\* has finished no element is left and no cell is still allocated.
C11_TeardownFreesAll ==
    /\ phase = "drain" => FreesAllocated(DropOwner)
    /\ phase = "free" => allocated[head]
    /\ phase = "dropped" => absq = <<>> /\ \A a \in Addr : ~allocated[a]

\* --- structure
\* C12: head references an allocated cell whose value field is None, and
\* the first value not yet removed, if any, is the value of head.next.
C12_HeadIsSentinel ==
    /\ allocated[head]
    /\ node_value[head] = None
    /\ absq # <<>> =>
          /\ node_next[head] # Null
          /\ node_value[node_next[head]] = Head(absq)

\* --- reclamation
\* Thread t has won a CAS of head and not yet freed the old head.
Reclaiming(t) == pc[t] \in {"pop_read", "pop_free"}

\* C13: no cell is reclaimed twice: the cell a pop is about to free after
\* winning the CAS of head is still allocated, and no other pop is about to
\* free the same cell.
C13_NoDoubleFree ==
    \A t \in Procs :
        Reclaiming(t) =>
            /\ allocated[l_head[t]]
            /\ \A u \in Procs \ {t} : Reclaiming(u) => l_head[u] # l_head[t]

\* --- chain
\* The cells strictly after a, following next through allocated cells, at
\* most n of them.
RECURSIVE Reach(_, _)
Reach(a, n) ==
    IF n = 0 \/ ~allocated[a] \/ node_next[a] = Null
    THEN <<>>
    ELSE <<node_next[a]>> \o Reach(node_next[a], n - 1)

\* Following next from a ends at a cell with a null next, through allocated
\* cells only, within n steps.
RECURSIVE ChainEnds(_, _)
ChainEnds(a, n) ==
    /\ allocated[a]
    /\ \/ node_next[a] = Null
       \/ n > 0 /\ ChainEnds(node_next[a], n - 1)

Chain == Reach(head, NumCells)

\* C14: the chain from head ends at a null next through allocated cells
\* only, and the cells after head hold exactly the values linked and not yet
\* removed, in link order.
C14_ChainHoldsQueue ==
    /\ ChainEnds(head, NumCells)
    /\ [i \in 1..Len(Chain) |-> node_value[Chain[i]]] = absq

\* C15: tail references head or a cell after head on the chain, and that
\* cell is allocated.
C15_TailOnChain ==
    /\ allocated[tail]
    /\ tail = head \/ \E i \in 1..Len(Chain) : Chain[i] = tail

\* C16: a pop iteration that read head != tail read a head.next that is not
\* null, so it never takes the path that only spins.
C16_NextNonNull ==
    \A t \in Procs :
        (pc[t] = "pop_cas" /\ l_head[t] # l_tail[t]) => l_next[t] # Null

\* The CAS of head that thread t stands at would succeed.
HeadCasEnabled(t) ==
    /\ pc[t] = "pop_cas"
    /\ l_head[t] # l_tail[t]
    /\ l_next[t] # Null
    /\ CasOk(head, l_head[t])

\* C18: whenever a pop's CAS of head can succeed, the successor it installs
\* is still the next of the head cell and is allocated: no stale successor
\* is installed, even after the address of head was freed and used again.
C18_NoAbaOnHead ==
    \A t \in Procs :
        HeadCasEnabled(t) =>
            /\ allocated[head]
            /\ node_next[head] = PopTarget(t)
            /\ allocated[PopTarget(t)]

\* --- counter
\* The cells linked by push so far: one per push that has returned or has
\* passed its CAS of tail.next.
Linked ==
    PushesCompleted + Cardinality({t \in Procs : pc[t] \in {"push_swing", "push_inc"}})

\* C19: len() is never more than the number of cells linked so far (the
\* counter has not wrapped below zero).
C19_LenNeverWraps ==
    Queue_len <= Linked

\* --- values
\* C17: no reclamation of a cell, by pop or by drop, has destroyed a value
\* that a pop had copied out to its caller.
C17_DestroyedOnce ==
    ~redropped

\* --- Backoff
\* C20: the delay is 1 after new or reset and min(2^k, 1024) after k spins
\* since then; it lies in 1..1024 and doubling it stays within the word.
C20_BackoffDelay ==
    \A t \in Procs :
        /\ backoff[t] = Min(2^spins[t], BackoffMax)
        /\ backoff[t] \in BackoffInitial..BackoffMax
        /\ backoff[t] * 2 < U32Mod

\* A Backoff has been spun past the cap: 2^k is above 1024, the delay is 1024.
C20_Witness ==
    \E t \in Procs :
        /\ spins[t] = MaxSpins
        /\ 2^spins[t] > BackoffMax
        /\ backoff[t] = BackoffMax

====
